---- MODULE Spec2Model ----
(***************************************************************************)
(* Backend process lifecycle of the Plattera desktop host                  *)
(* (frontend/src-tauri/src/lib.rs, backend_lifecycle.rs, windows_job.rs).  *)
(*                                                                         *)
(* The host keeps one slot, BackendProcess(Mutex<Option<CommandChild>>).   *)
(* start_backend fills it; shutdown_backend_inner, the window              *)
(* CloseRequested handler and the Ctrl+C handler take the child out of it  *)
(* and kill it.  Every thread of the host is a process of the model, and   *)
(* every lock acquisition and blocking call is a step of its own.          *)
(***************************************************************************)
EXTENDS Integers, Sequences, FiniteSets, TLC

\* ------------------------------------------------------------------ bounds
\* Number of backend children the host may spawn in one run.
MaxSpawns == 2

\* ------------------------------------------------------- program constants
TIMEOUT_MS == 10000
POLL_MS == 250

\* ------------------------------------------------------------------ values
None == 0
NoThread == "none"

\* The threads of the host: the auto-start thread, a frontend invocation of
\* the start_backend command, a caller of shutdown_backend_for_update /
\* shutdown_backend_for_exit, the window event handler, the Ctrl+C handler.
Starters == {"auto", "cmd"}
Hooks == {"hook"}
Closers == {"win"}
Signals == {"sig"}
Threads == Starters \cup Hooks \cup Closers \cup Signals

\* Process ids: children get 1..MaxSpawns, ExtPid is a process of an earlier
\* host session (the one a stale pid file may name).
ChildPids == 1..MaxSpawns
ExtPid == MaxSpawns + 5

VARIABLES
    mutex,       \* holder of the BackendProcess mutex, or NoThread
    slot,        \* Option<CommandChild>: None or the pid of the held child
    nextPid,     \* pid the next spawned child gets
    alive,       \* the OS process table (pids of running processes)
    takes,       \* per child: how many times it was taken out of the slot
    kills,       \* per child: how many times kill() was called on its handle
    pidFile,     \* content of ../../backend/.server.pid, or Absent
    isWindows,   \* cfg(windows)
    exeAt,       \* where plattera-backend.exe is: "orig", "probe" or "none"
    hostExited,  \* std::process::exit was called
    pc,          \* per thread: its position
    op,          \* per thread: the operation it runs or ran last
    held,        \* per starter: the child returned by spawn(), not yet stored
    elapsed,     \* per thread: start.elapsed() in ms at the top of the loop
    obsPort,     \* per thread: last result of port_in_use(8000)
    obsLock,     \* per thread: last result of backend_exe_unlocked
    log,         \* per thread: the effects of the current invocation, in order
    result,      \* per thread: what the last invocation returned
    atCall,      \* per starter: pid record and its liveness when it was called
    active,      \* the threads that run in this execution
    job,         \* the kill-on-close job object: its handle and its members
    unit,        \* the last call of a helper made on its own: name, input, result
    cell         \* what the calls made on the pid record so far amount to

vars == <<mutex, slot, nextPid, alive, takes, kills, pidFile, isWindows, exeAt,
          hostExited, pc, op, held, elapsed, obsPort, obsLock, log, result,
          atCall, active, job, unit, cell>>

shared == <<slot, nextPid, alive, takes, kills>>
files == <<pidFile, isWindows, exeAt>>
pollv == <<elapsed, obsLock>>
osv == <<job, unit, cell>>
hostv == <<hostExited, files, active, osv>>

\* ---------------------------------------------------------------- PidRegistry
Absent == <<"absent">>
Digit == <<"0", "1", "2", "3", "4", "5", "6", "7", "8", "9">>

RECURSIVE to_string(_)
\* u32::to_string: the decimal digits of pid
to_string(pid) ==
    IF pid < 10 THEN <<Digit[pid + 1]>>
    ELSE to_string(pid \div 10) \o <<Digit[(pid % 10) + 1]>>

IsSpace(c) == c \in {" ", "\n"}
IsDigit(c) == \E i \in 1..10 : Digit[i] = c
DigitVal(c) == (CHOOSE i \in 1..10 : Digit[i] = c) - 1

RECURSIVE trim_start(_)
trim_start(s) == IF s # <<>> /\ IsSpace(Head(s)) THEN trim_start(Tail(s)) ELSE s

RECURSIVE trim_end(_)
trim_end(s) ==
    IF s # <<>> /\ IsSpace(s[Len(s)]) THEN trim_end(SubSeq(s, 1, Len(s) - 1)) ELSE s

trim(s) == trim_end(trim_start(s))

RECURSIVE parse_digits(_, _)
\* the value of a digit string, or -1 when a character is no digit (the pids
\* of the model stay far below u32::MAX, the other way a parse fails)
parse_digits(s, acc) ==
    IF s = <<>> THEN acc
    ELSE IF ~IsDigit(Head(s)) THEN -1
    ELSE parse_digits(Tail(s), acc * 10 + DigitVal(Head(s)))

\* str::parse::<u32>().ok(): None stands for the failed parse.  A leading "+"
\* is accepted by the parser; the model's contents hold none.
parse_u32(s) ==
    IF s = <<>> THEN None
    ELSE LET v == parse_digits(s, 0) IN IF v < 0 THEN None ELSE v

\* read_pid: None when the file is missing or does not parse.  pid 0 never
\* names a backend, so None == 0 is free to stand for Option::None.
read_pid(file) == IF file = Absent THEN None ELSE parse_u32(trim(file))

write_pid(pid) == to_string(pid)

remove_pid_file == Absent

pid_alive(pid, table) == pid \in table

\* What a call of fs::write(path, text) can do to the file: the file could not
\* be created or truncated (the directory ../../backend is missing, the file is
\* read-only), or it was and `written` bytes of the text reached it before an
\* error, or all of them did.
WriteIo(text) ==
    {[created |-> FALSE, written |-> 0]}
        \cup {[created |-> TRUE, written |-> k] : k \in 0..Len(text)}
write_ok(text, io) == io.created /\ io.written = Len(text)
fs_write(file, text, io) ==
    IF io.created THEN SubSeq(text, 1, io.written) ELSE file

\* let _ = fs::write(pid_file_path(), pid.to_string()): the Result is dropped
write_pid_io(file, pid, io) == fs_write(file, write_pid(pid), io)

\* (mutant) the file stays when fs::remove_file succeeds
remove_pid_file_io_kept(file, ok) == file

\* let _ = fs::remove_file(pid_file_path()): the Result is dropped; on a missing
\* file the call fails with NotFound and there is nothing to remove
remove_pid_file_io(file, ok) == IF ok THEN remove_pid_file ELSE file

\* The ghost `cell`: `called` is the pid of the latest write_pid call, None
\* after a remove_pid_file call, whatever the I/O did; `val` is the same over
\* the calls whose I/O succeeded, and `sure` is FALSE once a write has failed
\* after truncating the file.
CellOf(pid) == [called |-> pid, sure |-> TRUE, val |-> pid]

\* ---------------------------------------------------------------- windows_job
\* Option<JobHandle> and the processes assigned to the job object
NoJob == [handle |-> FALSE, members |-> {}]

\* create_kill_on_close_job: Some(JobHandle) when CreateJobObjectW and
\* SetInformationJobObject both succeed; None on other platforms
create_kill_on_close_job(windows, created, configured) ==
    IF windows /\ created /\ configured
    THEN [handle |-> TRUE, members |-> {}]
    ELSE NoJob

\* assign_pid_to_job(&job, pid): OpenProcess, then AssignProcessToJobObject
assign_pid_to_job(windows, j, pid, opened, assigned) ==
    LET ok == windows /\ opened /\ assigned
    IN  [ret |-> ok,
         job |-> IF ok THEN [j EXCEPT !.members = @ \cup {pid}] ELSE j]

NoUnit == [fn |-> "none", arg |-> <<>>, ret |-> FALSE]

\* Contents the pid file may hold when the host starts.
PidFileContents == {Absent, to_string(ExtPid) \o <<"\n">>}

\* ------------------------------------------------------------------- helpers
is_none(s) == s = None

\* (mutant) the slot is read, not taken: the child stays in it
take_left_kept(s) == s

\* Option::take: what is left in the slot
take_left(s) == None

Append1(s, e) == IF \E i \in 1..Len(s) : s[i] = e THEN s ELSE Append(s, e)

Has(s, e) == \E i \in 1..Len(s) : s[i] = e

Pos(s, e) == CHOOSE i \in 1..Len(s) : s[i] = e

\* where a thread goes when its operation returns: the auto-start thread calls
\* start_backend once, the others may be invoked again
Home(t) == IF t = "auto" THEN "end" ELSE "idle"

NoCall == [rec |-> None, recAlive |-> FALSE]

\* The threads that run together in one execution: the two callers of
\* start_backend with the window-close and Ctrl+C handlers; repeated
\* start_backend calls with shutdown_backend_inner; and shutdown_backend_inner
\* racing each of the other two triggers for the child of the auto-start.
Scenarios ==
    {{"auto", "cmd", "win", "sig"}, {"cmd", "hook"}, {"auto", "hook", "win"},
     {"auto", "hook", "sig"}}

\* The state after run() has built the host (.manage(BackendProcess(Mutex::new(
\* None)))), the execution having the threads of one of `scenarios` and the
\* pid file one of `contents`.
InitWith(scenarios, contents) ==
    /\ mutex = NoThread
    /\ slot = None
    /\ nextPid = 1
    /\ pidFile \in contents
    /\ alive \in {{}, {ExtPid}}
    /\ (ExtPid \in alive) => read_pid(pidFile) = ExtPid
    /\ takes = [c \in ChildPids |-> 0]
    /\ kills = [c \in ChildPids |-> 0]
    /\ isWindows \in BOOLEAN
    /\ exeAt \in {"orig", "none"}
    /\ ~isWindows => exeAt = "orig"
    /\ hostExited = FALSE
    /\ pc = [t \in Threads |-> "idle"]
    /\ op = [t \in Threads |-> "none"]
    /\ held = [t \in Threads |-> None]
    /\ elapsed = [t \in Threads |-> 0]
    /\ obsPort = [t \in Threads |-> FALSE]
    /\ obsLock = [t \in Threads |-> "notcalled"]
    /\ log = [t \in Threads |-> <<>>]
    /\ result = [t \in Threads |-> "none"]
    /\ atCall = [t \in Threads |-> NoCall]
    /\ active \in scenarios
    /\ job = NoJob
    /\ unit = NoUnit
    /\ cell = CellOf(read_pid(pidFile))

Init == InitWith(Scenarios, PidFileContents)

\* A thread takes steps when the execution has it, and until
\* std::process::exit ends the host.
Runs(t) == t \in active /\ ~hostExited

\* --------------------------------------------------------------- environment
\* A spawn gives the child the next free pid and puts it in the process table.
SpawnChild(t) ==
    /\ held' = [held EXCEPT ![t] = nextPid]
    /\ nextPid' = nextPid + 1
    /\ alive' = alive \cup {nextPid}

\* CommandChild::kill on a handle taken out of the slot
KillChild(c) ==
    /\ kills' = [kills EXCEPT ![c] = @ + 1]
    /\ alive' = alive \ {c}

\* A backend child ends on its own (crash, or after its cleanup endpoint ran).
ChildExit ==
    \E c \in ChildPids :
        /\ c \in alive
        /\ alive' = alive \ {c}
        /\ UNCHANGED <<mutex, slot, nextPid, takes, kills, hostv, pc, op, held,
                       pollv, obsPort, log, result, atCall>>

\* ------------------------------------------------------------ start_backend
Msg_already == "Backend already running"
Msg_port == "Backend already running (detected on port 8000)"
Msg_sidecar == "Backend sidecar started"
Msg_fallback == "Backend started via Python fallback"
Err_fallback == "fallback python spawn error"

\* The spawn failures an Err(..) of start_backend carries: its text is
\* format!("fallback python spawn error: {}", err) with the error of the
\* fallback's spawn(); the error of try_sidecar is bound to _e and dropped.
failures_in(r) == IF r = Err_fallback THEN {"fallback_error"} ELSE {}

\* The command is invoked (by the auto-start thread after its 2000 ms sleep, or
\* by the frontend).
StartCall(t) ==
    /\ Runs(t)
    /\ t \in Starters
    /\ pc[t] = "idle"
    /\ pc' = [pc EXCEPT ![t] = "s_lock"]
    /\ op' = [op EXCEPT ![t] = "start"]
    /\ log' = [log EXCEPT ![t] = <<>>]
    /\ result' = [result EXCEPT ![t] = "none"]
    /\ atCall' = [atCall EXCEPT ![t] =
                    [rec |-> read_pid(pidFile),
                     recAlive |-> pid_alive(read_pid(pidFile), alive)]]
    /\ UNCHANGED <<mutex, shared, hostv, held, pollv, obsPort>>

\* (mutant) the slot is read without the mutex being acquired
StartLock_unguarded(t) ==
    /\ Runs(t)
    /\ pc[t] = "s_lock"
    /\ pc' = [pc EXCEPT ![t] = "s_check"]
    /\ UNCHANGED <<mutex, shared, hostv, op, held, pollv, obsPort, log, result, atCall>>

\* backend_process.0.lock().unwrap()
StartLock(t) ==
    /\ Runs(t)
    /\ pc[t] = "s_lock"
    /\ mutex = NoThread
    /\ mutex' = t
    /\ pc' = [pc EXCEPT ![t] = "s_check"]
    /\ UNCHANGED <<shared, hostv, op, held, pollv, obsPort, log, result, atCall>>

\* (mutant) a recorded pid that is alive is killed before the port is probed
StartCheck_reconciling(t) ==
    /\ Runs(t)
    /\ pc[t] = "s_check"
    /\ IF is_none(slot)
       THEN /\ pc' = [pc EXCEPT ![t] = "s_port"]
            /\ IF pid_alive(read_pid(pidFile), alive)
               THEN /\ alive' = alive \ {read_pid(pidFile)}
                    /\ log' = [log EXCEPT ![t] = Append(@, "kill_pid")]
               ELSE UNCHANGED <<alive, log>>
            /\ UNCHANGED <<mutex, result>>
       ELSE /\ pc' = [pc EXCEPT ![t] = Home(t)]
            /\ result' = [result EXCEPT ![t] = Msg_already]
            /\ mutex' = NoThread
            /\ UNCHANGED <<alive, log>>
    /\ UNCHANGED <<slot, nextPid, takes, kills, hostv, op, held, pollv, obsPort, atCall>>

\* if process_guard.is_none() { ... } else { Ok("Backend already running") }
StartCheck(t) ==
    /\ Runs(t)
    /\ pc[t] = "s_check"
    /\ IF is_none(slot)
       THEN /\ pc' = [pc EXCEPT ![t] = "s_port"]
            /\ UNCHANGED <<mutex, result>>
       ELSE /\ pc' = [pc EXCEPT ![t] = Home(t)]
            /\ result' = [result EXCEPT ![t] = Msg_already]
            /\ mutex' = NoThread
    /\ UNCHANGED <<shared, hostv, op, held, pollv, obsPort, log, atCall>>

\* (mutant) the answer of the port probe is not acted upon
StartPortProbe_ignored(t) ==
    /\ Runs(t)
    /\ pc[t] = "s_port"
    /\ \E inuse \in BOOLEAN :
        /\ obsPort' = [obsPort EXCEPT ![t] = inuse]
        /\ log' = [log EXCEPT ![t] = Append(@, "port_probe")]
        /\ pc' = [pc EXCEPT ![t] = "s_sidecar"]
    /\ UNCHANGED <<mutex, shared, hostv, op, held, pollv, result, atCall>>

\* if port_in_use(8000) { return Ok(..detected on port 8000..) }
\* The probe is a TCP connect to 127.0.0.1:8000; whoever listens there (this
\* host's child, or a server it did not start) decides the answer.
StartPortProbe(t) ==
    /\ Runs(t)
    /\ pc[t] = "s_port"
    /\ \E inuse \in BOOLEAN :
        /\ obsPort' = [obsPort EXCEPT ![t] = inuse]
        /\ log' = [log EXCEPT ![t] = Append(@, "port_probe")]
        /\ IF inuse
           THEN /\ pc' = [pc EXCEPT ![t] = Home(t)]
                /\ result' = [result EXCEPT ![t] = Msg_port]
                /\ mutex' = NoThread
           ELSE /\ pc' = [pc EXCEPT ![t] = "s_sidecar"]
                /\ UNCHANGED <<mutex, result>>
    /\ UNCHANGED <<shared, hostv, op, held, pollv, atCall>>

\* try_sidecar: sidecar("plattera-backend") ... spawn()
StartSidecar(t) ==
    /\ Runs(t)
    /\ pc[t] = "s_sidecar"
    /\ \/ /\ nextPid <= MaxSpawns
          /\ SpawnChild(t)
          /\ log' = [log EXCEPT ![t] = Append(@, "spawn_sidecar")]
          /\ pc' = [pc EXCEPT ![t] = "s_store"]
       \/ /\ log' = [log EXCEPT ![t] = Append(@, "sidecar_error")]
          /\ pc' = [pc EXCEPT ![t] = "s_fallback"]
          /\ UNCHANGED <<held, nextPid, alive>>
    /\ UNCHANGED <<mutex, slot, takes, kills, hostv, op, pollv, obsPort, result,
                   atCall>>

\* Err(_e) => command("../../.venv/Scripts/python.exe") ... spawn() ... ?
StartFallback(t) ==
    /\ Runs(t)
    /\ pc[t] = "s_fallback"
    /\ \/ /\ nextPid <= MaxSpawns
          /\ SpawnChild(t)
          /\ log' = [log EXCEPT ![t] = Append(@, "spawn_fallback")]
          /\ pc' = [pc EXCEPT ![t] = "s_store"]
          /\ UNCHANGED <<mutex, result>>
       \/ /\ log' = [log EXCEPT ![t] = Append(@, "fallback_error")]
          /\ pc' = [pc EXCEPT ![t] = Home(t)]
          /\ result' = [result EXCEPT ![t] = Err_fallback]
          /\ mutex' = NoThread
          /\ UNCHANGED <<held, nextPid, alive>>
    /\ UNCHANGED <<slot, takes, kills, hostv, op, pollv, obsPort, atCall>>

\* *process_guard = Some(child); Ok(...)  and the guard is dropped on return
StartStore(t) ==
    /\ Runs(t)
    /\ pc[t] = "s_store"
    /\ slot' = held[t]
    /\ held' = [held EXCEPT ![t] = None]
    /\ log' = [log EXCEPT ![t] = Append(@, "store")]
    /\ result' = [result EXCEPT ![t] =
                    IF Has(log[t], "spawn_sidecar") THEN Msg_sidecar ELSE Msg_fallback]
    /\ mutex' = NoThread
    /\ pc' = [pc EXCEPT ![t] = Home(t)]
    /\ UNCHANGED <<nextPid, alive, takes, kills, hostv, op, pollv, obsPort, atCall>>

start_backend(t) ==
    \/ StartCall(t)
    \/ StartLock(t)
    \/ StartCheck(t)
    \/ StartPortProbe(t)
    \/ StartSidecar(t)
    \/ StartFallback(t)
    \/ StartStore(t)

\* -------------------------------------------------------------- cleanup_via_http
\* POST http://127.0.0.1:8000/api/cleanup with a connect timeout; the answer
\* (or the failure) is dropped.  What the backend does with it is the
\* backend's business (ChildExit).
cleanup_via_http(t) == log' = [log EXCEPT ![t] = Append(@, "cleanup")]

\* ------------------------------------------------------------------ LockProbe
\* What the file system answers to one probe: whether the path resolves,
\* whether the rename to the probe name succeeds, whether the rename back does.
\* (An answer to a call that is not made is left out: after a failed resolve
\* there is no rename, after a failed rename there is no rename back.)
FsAnswers ==
    {[resolve |-> FALSE, forward |-> FALSE, back |-> FALSE],
     [resolve |-> TRUE, forward |-> FALSE, back |-> FALSE],
     [resolve |-> TRUE, forward |-> TRUE, back |-> FALSE],
     [resolve |-> TRUE, forward |-> TRUE, back |-> TRUE]}
\* no answer: the probe does not touch the file system
NoFs == [resolve |-> FALSE, forward |-> FALSE, back |-> FALSE]

\* (mutant) a reverse rename that fails makes the probe answer "locked"
backend_exe_unlocked_strict(windows, exe, fs) ==
    IF ~windows THEN [ret |-> TRUE, exe |-> exe]
    ELSE IF ~fs.resolve THEN [ret |-> TRUE, exe |-> exe]
    ELSE IF exe # "orig" THEN [ret |-> TRUE, exe |-> exe]
    ELSE IF fs.forward
         THEN [ret |-> fs.back, exe |-> IF fs.back THEN "orig" ELSE "probe"]
         ELSE [ret |-> FALSE, exe |-> exe]

\* backend_exe_unlocked: the value returned and where the executable is left
backend_exe_unlocked(windows, exe, fs) ==
    IF ~windows THEN [ret |-> TRUE, exe |-> exe]
    ELSE IF ~fs.resolve THEN [ret |-> TRUE, exe |-> exe]
    ELSE IF exe # "orig" THEN [ret |-> TRUE, exe |-> exe]
    ELSE IF fs.forward
         THEN [ret |-> TRUE, exe |-> IF fs.back THEN "orig" ELSE "probe"]
         ELSE [ret |-> FALSE, exe |-> exe]

\* --------------------------------------------------- shutdown_backend_inner
\* (mutant) the lock probe's answer is dropped
all_clear_port_only(inuse, check_file_lock, unlocked) == ~inuse

\* let mut all_clear = true; if port_in_use(8000) {..false}
\* if check_file_lock && !backend_exe_unlocked(..) {..false}
all_clear(inuse, check_file_lock, unlocked) ==
    ~inuse /\ ~(check_file_lock /\ ~unlocked)

\* (mutant) as_secs() for as_millis()
deadline_reached_secs(ms) == (ms \div 1000) >= TIMEOUT_MS

\* elapsed.as_millis() as u64 >= TIMEOUT_MS
deadline_reached(ms) == ms >= TIMEOUT_MS

\* start.elapsed() after thread::sleep(POLL_MS): the sleep lasts POLL_MS, or
\* the thread is scheduled again only after the deadline.  The loop compares
\* the elapsed time with TIMEOUT_MS and nothing else, so it is kept saturated
\* at TIMEOUT_MS.
after_sleep(ms) == {IF ms + POLL_MS > TIMEOUT_MS THEN TIMEOUT_MS ELSE ms + POLL_MS, TIMEOUT_MS}

\* (mutant) the exit mode asks for the lock probe too
check_file_lock_always(t) == TRUE

check_file_lock(t) == op[t] = "update"

\* (mutant) the sequence starts at step 2, without the cleanup request
ShutdownCall_no_cleanup(t) ==
    /\ Runs(t)
    /\ t \in Hooks
    /\ pc[t] = "idle"
    /\ \E o \in {"update", "exit"} : op' = [op EXCEPT ![t] = o]
    /\ pc' = [pc EXCEPT ![t] = "d_lock"]
    /\ log' = [log EXCEPT ![t] = <<>>]
    /\ result' = [result EXCEPT ![t] = "none"]
    /\ elapsed' = [elapsed EXCEPT ![t] = 0]
    /\ obsLock' = [obsLock EXCEPT ![t] = "notcalled"]
    /\ obsPort' = [obsPort EXCEPT ![t] = FALSE]
    /\ UNCHANGED <<mutex, shared, hostv, held, atCall>>

\* shutdown_backend_for_update (check_file_lock = true) or
\* shutdown_backend_for_exit (check_file_lock = false) is called.
ShutdownCall(t) ==
    /\ Runs(t)
    /\ t \in Hooks
    /\ pc[t] = "idle"
    /\ \E o \in {"update", "exit"} : op' = [op EXCEPT ![t] = o]
    /\ pc' = [pc EXCEPT ![t] = "d_cleanup"]
    /\ log' = [log EXCEPT ![t] = <<>>]
    /\ result' = [result EXCEPT ![t] = "none"]
    /\ elapsed' = [elapsed EXCEPT ![t] = 0]
    /\ obsLock' = [obsLock EXCEPT ![t] = "notcalled"]
    /\ obsPort' = [obsPort EXCEPT ![t] = FALSE]
    /\ UNCHANGED <<mutex, shared, hostv, held, atCall>>

\* 1) cleanup_via_http(1_500)
ShutdownCleanup(t) ==
    /\ Runs(t)
    /\ pc[t] = "d_cleanup"
    /\ cleanup_via_http(t)
    /\ pc' = [pc EXCEPT ![t] = "d_lock"]
    /\ UNCHANGED <<mutex, shared, hostv, op, held, pollv, obsPort, result, atCall>>

\* 2) let mut guard = backend.0.lock().unwrap()
ShutdownLock(t) ==
    /\ Runs(t)
    /\ pc[t] = "d_lock"
    /\ mutex = NoThread
    /\ mutex' = t
    /\ pc' = [pc EXCEPT ![t] = "d_take"]
    /\ UNCHANGED <<shared, hostv, op, held, pollv, obsPort, log, result, atCall>>

\* if let Some(child) = guard.take() { child.kill() }, the guard dropped at the
\* end of the block; then start = Instant::now()
ShutdownTake(t) ==
    /\ Runs(t)
    /\ pc[t] = "d_take"
    /\ IF ~is_none(slot)
       THEN /\ takes' = [takes EXCEPT ![slot] = @ + 1]
            /\ KillChild(slot)
            /\ log' = [log EXCEPT ![t] = @ \o <<"take", "kill">>]
       ELSE /\ log' = [log EXCEPT ![t] = Append(@, "take_none")]
            /\ UNCHANGED <<takes, kills, alive>>
    /\ slot' = take_left(slot)
    /\ mutex' = NoThread
    /\ pc' = [pc EXCEPT ![t] = "d_poll"]
    /\ UNCHANGED <<nextPid, hostv, op, held, pollv, obsPort, result, atCall>>

\* 3) one iteration of the loop: the deadline test, the two probes, and either
\* the break or the sleep.
ShutdownPoll(t) ==
    /\ Runs(t)
    /\ pc[t] = "d_poll"
    /\ IF deadline_reached(elapsed[t])
       THEN /\ result' = [result EXCEPT ![t] = "timeout"]
            /\ pc' = [pc EXCEPT ![t] = Home(t)]
            /\ elapsed' = [elapsed EXCEPT ![t] = 0]
            /\ UNCHANGED <<obsPort, obsLock, exeAt, log>>
       ELSE \E inuse \in BOOLEAN,
               fs \in IF check_file_lock(t) /\ isWindows THEN FsAnswers ELSE {NoFs} :
            LET probe == backend_exe_unlocked(isWindows, exeAt, fs)
                unlocked == IF check_file_lock(t) THEN probe.ret ELSE TRUE
                clear == all_clear(inuse, check_file_lock(t), unlocked)
            IN  /\ log' = [log EXCEPT ![t] = Append1(@, "poll")]
                /\ exeAt' = IF check_file_lock(t) THEN probe.exe ELSE exeAt
                /\ IF clear
                   THEN /\ result' = [result EXCEPT ![t] = "verified"]
                        /\ pc' = [pc EXCEPT ![t] = Home(t)]
                        /\ elapsed' = [elapsed EXCEPT ![t] = 0]
                        /\ obsPort' = [obsPort EXCEPT ![t] = inuse]
                        /\ obsLock' = [obsLock EXCEPT ![t] =
                                          IF ~check_file_lock(t) THEN "notcalled"
                                          ELSE IF probe.ret THEN "unlocked"
                                          ELSE "locked"]
                   ELSE /\ \E ms \in after_sleep(elapsed[t]) :
                              elapsed' = [elapsed EXCEPT ![t] = ms]
                        /\ UNCHANGED <<pc, result, obsPort, obsLock>>
    /\ UNCHANGED <<mutex, shared, hostExited, pidFile, isWindows, active, osv, op, held,
                   atCall>>

shutdown_backend_inner(t) ==
    \/ ShutdownCall(t)
    \/ ShutdownCleanup(t)
    \/ ShutdownLock(t)
    \/ ShutdownTake(t)
    \/ ShutdownPoll(t)

\* ------------------------------------- on_window_event: CloseRequested
CloseRequested(t) ==
    /\ Runs(t)
    /\ t \in Closers
    /\ pc[t] = "idle"
    /\ op' = [op EXCEPT ![t] = "close"]
    /\ pc' = [pc EXCEPT ![t] = "w_cleanup"]
    /\ log' = [log EXCEPT ![t] = <<>>]
    /\ result' = [result EXCEPT ![t] = "none"]
    /\ UNCHANGED <<mutex, shared, hostv, held, pollv, obsPort, atCall>>

\* cleanup_via_http(1500); thread::sleep(250 ms)
CloseCleanup(t) ==
    /\ Runs(t)
    /\ pc[t] = "w_cleanup"
    /\ cleanup_via_http(t)
    /\ pc' = [pc EXCEPT ![t] = "w_lock"]
    /\ UNCHANGED <<mutex, shared, hostv, op, held, pollv, obsPort, result, atCall>>

\* backend_process.0.lock().unwrap(): the guard is a temporary of the
\* `if let` scrutinee and lives until the end of the `if let`
CloseLock(t) ==
    /\ Runs(t)
    /\ pc[t] = "w_lock"
    /\ mutex = NoThread
    /\ mutex' = t
    /\ pc' = [pc EXCEPT ![t] = "w_take"]
    /\ UNCHANGED <<shared, hostv, op, held, pollv, obsPort, log, result, atCall>>

\* if let Some(mut child) = ....take() { let _ = child.kill(); }
CloseTake(t) ==
    /\ Runs(t)
    /\ pc[t] = "w_take"
    /\ IF ~is_none(slot)
       THEN /\ takes' = [takes EXCEPT ![slot] = @ + 1]
            /\ KillChild(slot)
            /\ log' = [log EXCEPT ![t] = @ \o <<"take", "kill">>]
       ELSE /\ log' = [log EXCEPT ![t] = Append(@, "take_none")]
            /\ UNCHANGED <<takes, kills, alive>>
    /\ slot' = take_left(slot)
    /\ mutex' = NoThread
    /\ result' = [result EXCEPT ![t] = "closed"]
    /\ pc' = [pc EXCEPT ![t] = Home(t)]
    /\ UNCHANGED <<nextPid, hostv, op, held, pollv, obsPort, atCall>>

on_window_event(t) ==
    \/ CloseRequested(t)
    \/ CloseCleanup(t)
    \/ CloseLock(t)
    \/ CloseTake(t)

\* ------------------------------------------------------------ ctrlc handler
CtrlC(t) ==
    /\ Runs(t)
    /\ t \in Signals
    /\ pc[t] = "idle"
    /\ op' = [op EXCEPT ![t] = "ctrlc"]
    /\ pc' = [pc EXCEPT ![t] = "c_cleanup"]
    /\ log' = [log EXCEPT ![t] = <<>>]
    /\ result' = [result EXCEPT ![t] = "none"]
    /\ UNCHANGED <<mutex, shared, hostv, held, pollv, obsPort, atCall>>

\* cleanup_via_http(1500)
CtrlCCleanup(t) ==
    /\ Runs(t)
    /\ pc[t] = "c_cleanup"
    /\ cleanup_via_http(t)
    /\ pc' = [pc EXCEPT ![t] = "c_lock"]
    /\ UNCHANGED <<mutex, shared, hostv, op, held, pollv, obsPort, result, atCall>>

CtrlCLock(t) ==
    /\ Runs(t)
    /\ pc[t] = "c_lock"
    /\ mutex = NoThread
    /\ mutex' = t
    /\ pc' = [pc EXCEPT ![t] = "c_take"]
    /\ UNCHANGED <<shared, hostv, op, held, pollv, obsPort, log, result, atCall>>

\* if let Some(mut child) = ....take() { let _ = child.kill(); }
\* std::process::exit(0)
CtrlCTake(t) ==
    /\ Runs(t)
    /\ pc[t] = "c_take"
    /\ IF ~is_none(slot)
       THEN /\ takes' = [takes EXCEPT ![slot] = @ + 1]
            /\ KillChild(slot)
            /\ log' = [log EXCEPT ![t] = @ \o <<"take", "kill">>]
       ELSE /\ log' = [log EXCEPT ![t] = Append(@, "take_none")]
            /\ UNCHANGED <<takes, kills, alive>>
    /\ slot' = take_left(slot)
    /\ mutex' = NoThread
    /\ result' = [result EXCEPT ![t] = "exit(0)"]
    /\ pc' = [pc EXCEPT ![t] = "end"]
    /\ hostExited' = TRUE
    /\ UNCHANGED <<nextPid, files, active, osv, op, held, pollv, obsPort, atCall>>

ctrlc_handler(t) ==
    \/ CtrlC(t)
    \/ CtrlCCleanup(t)
    \/ CtrlCLock(t)
    \/ CtrlCTake(t)

\* ---------------------------------------------------------------------- Next
ThreadNext(t) ==
    \/ start_backend(t)
    \/ shutdown_backend_inner(t)
    \/ on_window_event(t)
    \/ ctrlc_handler(t)

Next ==
    \/ \E t \in Threads : ThreadNext(t)
    \/ ChildExit

Spec == Init /\ [][Next]_vars

\* A thread inside an operation keeps running: the threads are OS threads and
\* each blocking call (connect, rename, spawn, sleep) returns.  When an
\* operation is invoked is left to the environment.
ThreadProgress(t) == pc[t] # "idle" /\ ThreadNext(t)

\* The executions the liveness claim is checked on: a shutdown_backend_inner
\* competing with start_backend for the mutex, and the other threads of the host.
FairScenarios == {{"cmd", "hook"}, {"auto", "win", "sig"}}

\* (No step reads the pid file, so one content is enough here.)
FairInit == InitWith(FairScenarios, {Absent})

\* lock() blocks until the mutex is released and is then woken: a thread
\* waiting for a mutex that is released again and again gets it in the end.
LockStep(t) == StartLock(t) \/ ShutdownLock(t) \/ CloseLock(t) \/ CtrlCLock(t)

FairSpec ==
    /\ FairInit
    /\ [][Next]_vars
    /\ \A t \in Threads : WF_vars(ThreadProgress(t)) /\ SF_vars(LockStep(t))

\* ============================================================ helpers alone
\* backend_exe_unlocked and the helpers of the pid record and of the job object,
\* called one at a time on every input, outside the threads above.
threadv ==
    <<mutex, shared, hostExited, active, pc, op, held, pollv, obsPort, log,
      result, atCall>>

\* pids of one and of two digits
UnitPids == {1, ExtPid, ExtPid + 5}

\* What another program can leave in the pid file: the backend's own record
\* (the pid and a newline), and contents that are no pid.
ForeignContents ==
    {[text |-> to_string(ExtPid) \o <<"\n">>, pid |-> ExtPid],
     [text |-> <<" ", "\n">>, pid |-> None],
     [text |-> <<"x">>, pid |-> None],
     [text |-> <<"1", "x">>, pid |-> None],
     [text |-> <<"1", " ", "2">>, pid |-> None]}

UnitInit ==
    /\ mutex = NoThread
    /\ slot = None
    /\ nextPid = 1
    /\ pidFile = Absent
    /\ alive = {}
    /\ takes = [c \in ChildPids |-> 0]
    /\ kills = [c \in ChildPids |-> 0]
    /\ isWindows \in BOOLEAN
    /\ exeAt \in {"orig", "none"}
    /\ hostExited = FALSE
    /\ pc = [t \in Threads |-> "idle"]
    /\ op = [t \in Threads |-> "none"]
    /\ held = [t \in Threads |-> None]
    /\ elapsed = [t \in Threads |-> 0]
    /\ obsPort = [t \in Threads |-> FALSE]
    /\ obsLock = [t \in Threads |-> "notcalled"]
    /\ log = [t \in Threads |-> <<>>]
    /\ result = [t \in Threads |-> "none"]
    /\ atCall = [t \in Threads |-> NoCall]
    /\ active = {}
    /\ job = NoJob
    /\ unit = NoUnit
    /\ cell = CellOf(None)

\* backend_exe_unlocked(app)
ProbeCall ==
    \E fs \in FsAnswers :
        LET probe == backend_exe_unlocked(isWindows, exeAt, fs)
        IN  /\ unit' = [fn |-> "backend_exe_unlocked",
                        arg |-> <<isWindows, exeAt, fs>>, ret |-> probe.ret]
            /\ exeAt' = probe.exe
            /\ UNCHANGED <<threadv, pidFile, isWindows, job, cell>>

\* write_pid(pid)
WritePid ==
    \E pid \in UnitPids :
        \E io \in WriteIo(write_pid(pid)) :
            /\ pidFile' = write_pid_io(pidFile, pid, io)
            /\ unit' = [fn |-> "write_pid", arg |-> <<pid, io>>, ret |-> TRUE]
            /\ cell' = [called |-> pid,
                        sure |-> IF write_ok(write_pid(pid), io) THEN TRUE
                                 ELSE IF io.created THEN FALSE ELSE cell.sure,
                        val |-> IF write_ok(write_pid(pid), io) THEN pid
                                ELSE cell.val]
            /\ UNCHANGED <<threadv, isWindows, exeAt, job>>

\* remove_pid_file(); fs::remove_file fails on a missing file, and can fail on
\* one that is there
RemovePid ==
    \E ok \in IF pidFile = Absent THEN {FALSE} ELSE BOOLEAN :
        /\ pidFile' = remove_pid_file_io(pidFile, ok)
        /\ unit' = [fn |-> "remove_pid_file", arg |-> <<pidFile, ok>>, ret |-> TRUE]
        /\ cell' = [called |-> None,
                    sure |-> IF ok THEN TRUE ELSE cell.sure,
                    val |-> IF ok THEN None ELSE cell.val]
        /\ UNCHANGED <<threadv, isWindows, exeAt, job>>

\* read_pid()
ReadPid ==
    /\ unit' = [fn |-> "read_pid", arg |-> <<pidFile>>, ret |-> read_pid(pidFile)]
    /\ UNCHANGED <<threadv, files, job, cell>>

\* Another program rewrites the pid file.
ForeignWrite ==
    \E c \in ForeignContents :
        /\ pidFile' = c.text
        /\ unit' = NoUnit
        /\ cell' = CellOf(c.pid)
        /\ UNCHANGED <<threadv, isWindows, exeAt, job>>

\* create_kill_on_close_job()
CreateJob ==
    /\ ~job.handle
    /\ \E created \in BOOLEAN, configured \in BOOLEAN :
          /\ job' = create_kill_on_close_job(isWindows, created, configured)
          /\ unit' = [fn |-> "create_kill_on_close_job",
                      arg |-> <<isWindows, created, configured>>,
                      ret |-> job'.handle]
    /\ UNCHANGED <<threadv, files, cell>>

\* assign_pid_to_job(&job, pid)
AssignPid ==
    /\ job.handle
    /\ \E pid \in {1}, opened \in BOOLEAN, assigned \in BOOLEAN :
          LET r == assign_pid_to_job(isWindows, job, pid, opened, assigned)
          IN  /\ job' = r.job
              /\ unit' = [fn |-> "assign_pid_to_job",
                          arg |-> <<pid, opened, assigned>>, ret |-> r.ret]
    /\ UNCHANGED <<threadv, files, cell>>

UnitNext ==
    \/ ProbeCall
    \/ WritePid
    \/ RemovePid
    \/ ReadPid
    \/ ForeignWrite
    \/ CreateJob
    \/ AssignPid

UnitSpec == UnitInit /\ [][UnitNext]_vars

\* ===================================================================== claims
Takers == Hooks \cup Closers \cup Signals
Returned(t) == pc[t] \in {"idle", "end"} /\ result[t] # "none"
Spawned == {c \in ChildPids : c < nextPid}
Before(l, a, b) == Has(l, a) /\ Has(l, b) /\ Pos(l, a) < Pos(l, b)

\* C1: the children spawned by this host and not yet taken out of the slot are
\* never more than one, and that one is the child in the slot (or the child a
\* start_backend holding the mutex is about to store); a start_backend call
\* that returns "Backend already running" has probed and spawned nothing.
C1_AtMostOneTrackedChild ==
    LET untaken == {c \in Spawned : takes[c] = 0}
    IN  /\ Cardinality(untaken) <= 1
        /\ untaken \subseteq ({slot} \cup {held[t] : t \in Starters})
        /\ \A t \in Starters : result[t] = Msg_already => log[t] = <<>>

\* C1 witness: two start_backend calls have returned, one having spawned the
\* child that is in the slot, the other with "Backend already running".
C1_Witness ==
    \E t, u \in Starters :
        /\ result[t] = Msg_already /\ Returned(t)
        /\ result[u] \in {Msg_sidecar, Msg_fallback}
        /\ slot # None

\* C2: no child is taken out of the slot twice or killed twice, a kill is only
\* ever issued on a child the trigger took, and a trigger that found the slot
\* empty issues no kill.
C2_TakeOnceKillOnce ==
    /\ \A c \in ChildPids : takes[c] <= 1 /\ kills[c] <= 1 /\ kills[c] = takes[c]
    /\ \A t \in Takers :
        /\ Has(log[t], "take_none") => ~Has(log[t], "kill")
        /\ Has(log[t], "kill") => Has(log[t], "take")

\* C2 witness: two triggers ran against the same child; one took and killed
\* it, the other found the slot empty and completed.
C2_Witness ==
    \E t, u \in Takers :
        /\ t # u
        /\ Has(log[t], "kill")
        /\ Has(log[u], "take_none") /\ Returned(u)
        /\ nextPid = 2

C4_CleanupKillPoll ==
    \A t \in Takers :
        /\ Has(log[t], "kill") => Before(log[t], "cleanup", "kill")
        /\ Has(log[t], "take") => Before(log[t], "cleanup", "take")
        /\ Has(log[t], "take_none") => Before(log[t], "cleanup", "take_none")
        /\ Has(log[t], "poll") =>
            /\ Has(log[t], "take") \/ Has(log[t], "take_none")
            /\ Has(log[t], "kill") => Before(log[t], "kill", "poll")
            /\ Has(log[t], "take_none") => Before(log[t], "take_none", "poll")

\* C4 witness: a shutdown_backend_inner that killed the tracked child and went
\* on to poll.
C4_Witness == \E t \in Hooks : log[t] = <<"cleanup", "take", "kill", "poll">>

\* C5: a start_backend that found the slot empty and the port in use returns
\* the "detected on port 8000" success, having spawned nothing, with the slot
\* still empty.
C5_PortInUseNoSpawn ==
    [][\A t \in Starters :
        (pc[t] = "s_port" /\ pc'[t] # "s_port" /\ obsPort'[t])
            => /\ result'[t] = Msg_port
               /\ pc'[t] \in {"idle", "end"}
               /\ slot' = None
               /\ nextPid' = nextPid
               /\ alive' = alive
               /\ held'[t] = None]_vars

\* C5 witness: such a call has returned.
C5_Witness ==
    \E t \in Starters :
        Returned(t) /\ result[t] = Msg_port /\ log[t] = <<"port_probe">> /\ obsPort[t]

\* C6: a shutdown_backend_inner that left the loop before the deadline saw, in
\* its last iteration, the port free and, in pre_update mode, the executable
\* unlocked.
C6_EarlyExitMeansClear ==
    \A t \in Hooks :
        result[t] = "verified" =>
            /\ obsPort[t] = FALSE
            /\ op[t] = "update" => obsLock[t] = "unlocked"
            /\ op[t] = "exit" => obsLock[t] = "notcalled"

\* C6 witness: a pre_update shutdown on Windows, the executable in place, has
\* returned before the deadline.
C6_Witness ==
    \E t \in Hooks :
        /\ result[t] = "verified" /\ op[t] = "update"
        /\ isWindows /\ exeAt = "orig"

\* C7: after shutdown in pre_update mode has returned, read_pid() is none.
C7_RegistryClearedAfterUpdate ==
    \A t \in Hooks :
        (op[t] = "update" /\ Returned(t)) => read_pid(pidFile) = None

\* C8: when start_backend returns having spawned a child, the slot holds that
\* child and read_pid() returns its pid.
C8_SpawnTrackedAndRecorded ==
    [][\A t \in Starters :
        (pc[t] = "s_store" /\ pc'[t] # "s_store")
            => /\ result'[t] \in {Msg_sidecar, Msg_fallback}
               /\ slot' = held[t]
               /\ read_pid(pidFile') = held[t]]_vars

\* C9: a start_backend called with the slot empty, the port free and a pid
\* record naming a dead pid goes on to launch, kills nothing, and leaves a
\* record that no longer names the dead pid.
C9_StaleRecordCleared ==
    \A t \in Starters :
        (/\ Returned(t) /\ op[t] = "start"
         /\ Has(log[t], "port_probe") /\ ~obsPort[t]
         /\ atCall[t].rec # None /\ ~atCall[t].recAlive)
            => /\ Has(log[t], "spawn_sidecar") \/ Has(log[t], "sidecar_error")
               /\ ~Has(log[t], "kill")
               /\ read_pid(pidFile) # atCall[t].rec

\* C10: a start_backend called with the slot empty and a pid record naming a
\* live pid has, by the time it probes the port, issued the cleanup request,
\* then killed that pid, then cleared the record.
C10_LiveRecordReconciled ==
    \A t \in Starters :
        (/\ op[t] = "start" /\ atCall[t].recAlive
         /\ Has(log[t], "port_probe"))
            => /\ Before(log[t], "cleanup", "kill")
               /\ Before(log[t], "kill", "clear_pid")
               /\ Before(log[t], "clear_pid", "port_probe")
               /\ atCall[t].rec \notin alive
               /\ read_pid(pidFile) = None

\* C11: a start_backend that found the slot empty, the pid record naming a
\* live pid and the port in use returns the "detected on port 8000" success
\* and that pid is still alive; start_backend kills a recorded pid only after
\* a port probe that answered false, and only a pid that was alive.
C11_PortCheckFirst ==
    \A t \in Starters :
        /\ (/\ Returned(t) /\ op[t] = "start" /\ atCall[t].recAlive
            /\ Has(log[t], "port_probe") /\ obsPort[t])
               => /\ result[t] = Msg_port
                  /\ ~Has(log[t], "kill_pid")
                  /\ pid_alive(atCall[t].rec, alive)
        /\ Has(log[t], "kill_pid") =>
               /\ Before(log[t], "port_probe", "kill_pid")
               /\ ~obsPort[t]
               /\ atCall[t].recAlive

\* C11 witness: the two signals conflicted and the call has returned.
C11_Witness ==
    \E t \in Starters :
        /\ Returned(t) /\ result[t] = Msg_port
        /\ atCall[t].recAlive /\ atCall[t].rec = ExtPid
        /\ obsPort[t] /\ ExtPid \in alive

\* C12: once a pre_update shutdown that found the slot empty has started to
\* poll, a pid the record names is not alive any more; a normal_exit shutdown
\* kills no recorded pid.
C12_UpdateKillsRecordedPid ==
    \A t \in Hooks :
        /\ (op[t] = "update" /\ Has(log[t], "take_none") /\ Has(log[t], "poll"))
               => ~pid_alive(read_pid(pidFile), alive)
        /\ op[t] = "exit" => ~Has(log[t], "kill_pid")

\* C13: a trigger that took the child out of the slot and killed it has, when
\* it completes, polled for the port and cleared the pid record.
C13_OnlyTheSequenceRetires ==
    \A t \in Takers :
        (Returned(t) /\ Has(log[t], "kill"))
            => /\ Before(log[t], "kill", "poll")
               /\ Before(log[t], "poll", "clear_pid")
               /\ read_pid(pidFile) = None

\* The positions at which a thread is inside a blocking call: the TCP connect
\* of the port probe, the spawn of a child, the HTTP cleanup request, and the
\* probes and sleep of the poll loop.
Blocking ==
    {"s_port", "s_sidecar", "s_fallback", "d_cleanup", "w_cleanup", "c_cleanup",
     "d_poll"}

\* C14: a thread inside a blocking network or process call does not hold the
\* BackendProcess mutex.
C14_NoLockAcrossBlockingCall ==
    \A t \in Threads : pc[t] \in Blocking => mutex # t

\* C16: the lock probe leaves the executable where it found it: an executable
\* that was at its original path is never left under the probe name, even when
\* the reverse rename fails.
C16_ProbeRestoresFile == exeAt # "probe"

\* C17: a start_backend whose sidecar launch and fallback launch both failed
\* returns an error carrying the failures of both launches, has spawned no
\* child and has stored nothing in the slot.
C17_AggregatedSpawnError ==
    \A t \in Starters :
        (/\ Returned(t)
         /\ Has(log[t], "sidecar_error") /\ Has(log[t], "fallback_error"))
            => /\ failures_in(result[t]) = {"sidecar_error", "fallback_error"}
               /\ ~Has(log[t], "spawn_sidecar") /\ ~Has(log[t], "spawn_fallback")
               /\ ~Has(log[t], "store")

\* C20: a poll iteration of a normal-exit shutdown does not call the lock
\* probe and leaves the executable's name alone; the executable's name changes
\* only in a poll iteration of a pre-update shutdown.
C20_ExitNeverProbes ==
    [][/\ \A t \in Hooks :
              (op[t] = "exit" /\ ShutdownPoll(t))
                  => exeAt' = exeAt /\ obsLock'[t] = "notcalled"
       /\ exeAt' # exeAt => \E t \in Hooks : op[t] = "update" /\ ShutdownPoll(t)]_vars

\* C20 witness: on Windows, with the executable installed, a normal-exit
\* shutdown has polled and returned.
C20_Witness ==
    \E t \in Hooks :
        /\ Returned(t) /\ op[t] = "exit" /\ Has(log[t], "poll")
        /\ isWindows /\ exeAt = "orig" /\ obsLock[t] = "notcalled"

C18_AbsenceTolerated ==
    /\ pidFile = Absent => read_pid(pidFile) = None
    /\ \A c \in ForeignContents : pidFile = c.text => read_pid(pidFile) = c.pid
    /\ (unit.fn = "remove_pid_file" /\ unit.arg[1] = Absent) => pidFile = Absent

C19_ChildInJobGroup ==
    /\ create_kill_on_close_job(isWindows, TRUE, TRUE).handle =>
           \A c \in Spawned :
               (\A t \in Starters : held[t] # c) => c \in job.members
    /\ ~create_kill_on_close_job(isWindows, TRUE, TRUE).handle =>
           \A t \in Starters :
               (Returned(t) /\ Has(log[t], "store"))
                   => result[t] \in {Msg_sidecar, Msg_fallback}

\* C21: whenever the slot holds a child, that child is still running.
C21_SlotChildIsAlive == slot # None => slot \in alive

\* C22: once shutdown_backend_inner or the CloseRequested handler has
\* completed, the slot is empty, no start_backend holds a spawned child, and no
\* child spawned by this host is running.
C22_NothingAfterShutdown ==
    (\E t \in Hooks \cup Closers : Returned(t))
        => /\ slot = None
           /\ \A t \in Starters : held[t] = None
           /\ \A c \in Spawned : c \notin alive

====
